---- MODULE Spec2Model ----
(***************************************************************************)
(* A model of scraper.py: the URL validator (check_url), the Scraper class *)
(* (__parse_url, __get_thread, __get_images, __download_image, __md5check, *)
(* Scrape) and the orchestration (main and the __main__ block).            *)
(*                                                                         *)
(* Strings are sequences of one-character strings, so that the regular     *)
(* expression, str.split, os.path.join and str.format are computed on the  *)
(* characters as the code computes them.                                   *)
(***************************************************************************)
EXTENDS Integers, Sequences, FiniteSets, TLC

VARIABLES
    URLs,              \* args.URLs
    keep_names,        \* args.keep_names
    posts,             \* the world: the posts the read API serves for a thread
    files,             \* the world: the file system, path -> content
    dirs,              \* the world: the directories that exist
    pc,                \* position of the single execution path
    exitcode,          \* main: exitcode
    validURLs,         \* main: validURLs
    threads,           \* main: threads, the constructed Scraper objects
    ui,                \* main: index of the loop over args.URLs / validURLs / threads
    images,            \* __get_images: images
    image_total,       \* Scraper.__image_total
    image_count,       \* Scraper.__image_count
    filename,          \* __download_image: filename
    file_path,         \* __download_image: file_path
    response,          \* __download_image: response (the body still to be read)
    size,              \* __download_image: size
    dl,                \* __download_image: dl
    status,            \* the exit status of the process, -1 while it runs
    url,               \* check_url: the string under test (validator runs)
    verdict,           \* check_url: whether it was called, its result, and the parse
    hist               \* history of the run, read by the properties only

vars == <<URLs, keep_names, posts, files, dirs, pc, exitcode, validURLs, threads, ui,
          images, image_total, image_count, filename, file_path, response, size, dl,
          status, url, verdict, hist>>

----------------------------------------------------------------------------
(* Characters and strings *)

Lower == {"a","b","c","d","e","f","g","h","i","j","k","l","m",
          "n","o","p","q","r","s","t","u","v","w","x","y","z"}

Digit == <<"0","1","2","3","4","5","6","7","8","9">>

Digits == {Digit[k] : k \in 1..10}

NL == "\n"

\* str(n) for a natural number n
RECURSIVE Str(_)
Str(n) == IF n < 10 THEN <<Digit[n + 1]>> ELSE Str(n \div 10) \o <<Digit[(n % 10) + 1]>>

\* s.split("/")
RECURSIVE SplitFrom(_, _, _)
SplitFrom(s, k, cur) ==
    IF k > Len(s) THEN <<cur>>
    ELSE IF s[k] = "/" THEN <<cur>> \o SplitFrom(s, k + 1, <<>>)
    ELSE SplitFrom(s, k + 1, Append(cur, s[k]))

Split(s) == SplitFrom(s, 1, <<>>)

\* os.path.join(a, b) on a POSIX system
PathJoin(a, b) ==
    IF Len(b) > 0 /\ b[1] = "/" THEN b
    ELSE IF Len(a) = 0 \/ a[Len(a)] = "/" THEN a \o b
    ELSE a \o <<"/">> \o b

----------------------------------------------------------------------------
(* check_url: the regular expression                                       *)
(*   ^(https:\/\/boards.4channel.org\/|https:\/\/boards.4chan.org\/)        *)
(*    [a-z]{1,5}\/thread\/[0-9]*$                                           *)
(* In a pattern below the item "." is the regex's unescaped dot, which      *)
(* matches any character but a newline; every other item is a literal.      *)

PatChannel == <<"h","t","t","p","s",":","/","/","b","o","a","r","d","s",".",
                "4","c","h","a","n","n","e","l",".","o","r","g","/">>

PatChan == <<"h","t","t","p","s",":","/","/","b","o","a","r","d","s",".",
             "4","c","h","a","n",".","o","r","g","/">>

PatThread == <<"/","t","h","r","e","a","d","/">>

MaxBoardLen == 5

\* the pattern matches s from position k on
MatchAt(pat, s, k) ==
    /\ k + Len(pat) - 1 <= Len(s)
    /\ \A j \in 1..Len(pat) :
          IF pat[j] = "." THEN s[k + j - 1] # NL ELSE s[k + j - 1] = pat[j]

\* $ : at the end of the string, or just before a newline that ends it
AtEnd(s, k) == k = Len(s) + 1 \/ (k = Len(s) /\ s[k] = NL)

\* [0-9]* : the greedy-or-not choice of how many digits to take is existential
IdMatch(s, k) ==
    \E d \in 0..(Len(s) + 1 - k) :
        /\ \A j \in k..(k + d - 1) : s[j] \in Digits
        /\ AtEnd(s, k + d)


check_url(s) ==
    \E pat \in {PatChannel, PatChan} :
        /\ MatchAt(pat, s, 1)
        /\ \E b \in 1..MaxBoardLen :
              /\ Len(pat) + b <= Len(s)
              /\ \A j \in (Len(pat) + 1)..(Len(pat) + b) : s[j] \in Lower
              /\ MatchAt(PatThread, s, Len(pat) + b + 1)
              /\ IdMatch(s, Len(pat) + b + Len(PatThread) + 1)

\* Scraper.__parse_url: board = url.split("/")[3], thread_id = url.split("/")[5]
\* (an index past the end raises IndexError)
parse_url(s) ==
    LET parts == Split(s) IN
    IF Len(parts) < 6 THEN [error |-> "IndexError"]
    ELSE [board |-> parts[4], thread_id |-> parts[6]]

----------------------------------------------------------------------------
(* The world: the read API, the media host, the file system *)

chunk_size == 1024

\* hashlib.md5(data): a digest, injective on the contents of the model
RECURSIVE Md5(_)
Md5(data) == IF data = <<>> THEN 7 ELSE data[1] + 100 * Md5(Tail(data))

\* hashlib.md5(data).hexdigest()
hexdigest(data) == <<"hex", Md5(data)>>

\* the API's "md5" field: the digest in base64
b64digest(data) == <<"b64", Md5(data)>>

\* base64.b64decode(image["md5"]).hex()
b64decode_hex(m) == <<"hex", m[2]>>

\* the bytes uploaded as the attachment with server id tim, in chunks
Original(tim) == <<tim, tim + 1>>

\* bytes that are no attachment's
Junk == <<0>>

\* response bodies of the read API: the empty body, a body that is not JSON,
\* and the JSON document of a thread
EmptyBody == [kind |-> "empty", posts |-> <<>>]

MalformedBody == [kind |-> "garbage", posts |-> <<>>]

JsonBody(p) == [kind |-> "json", posts |-> p]

\* what GET https://a.4cdn.org/<board>/thread/<id>.json may answer
\* (the thread as it is now, or as it was when it held fewer posts)
ApiResponses ==
    {EmptyBody, MalformedBody} \cup {JsonBody(SubSeq(posts, 1, n)) : n \in 1..Len(posts)}

\* what GET https://i.4cdn.org/<board>/<tim><ext> may answer: a body, with or
\* without a Content-length header
MediaResponses(image) ==
    {[body |-> b, header |-> TRUE] : b \in {Original(image.tim), Junk}}
        \cup {[body |-> Original(image.tim), header |-> FALSE]}

\* os.path.exists(path) for a file
FileExists(fs, path) == path \in DOMAIN fs

\* open(path, 'wb'): create or truncate
OpenWb(fs, path) == [p \in DOMAIN fs \cup {path} |-> IF p = path THEN <<>> ELSE fs[p]]

\* file.write(chunk)
WriteTo(fs, path, chunk) == [fs EXCEPT ![path] = Append(@, chunk)]

\* os.remove(path)
Remove(fs, path) == [p \in DOMAIN fs \ {path} |-> fs[p]]

----------------------------------------------------------------------------
(* Scraper *)

\* list.count(x)
Count(list, x) == Cardinality({k \in 1..Len(list) : list[k] = x})

\* the suffix of a repeated name: self.downloaded_files.count(filename)-1
SuffixNoMinus(ledger, name) == Count(ledger, name)

Suffix(ledger, name) == Count(ledger, name) - 1

\* __download_image, lines 55-69: the ledger after the append, and the filename
ResolveLedger(keep, ledger, image) ==
    IF keep THEN Append(ledger, image.filename \o image.ext) ELSE ledger

ResolveName(keep, ledger, image) ==
    IF keep
    THEN LET name == image.filename \o image.ext
             after == Append(ledger, name)
         IN  IF \E k \in 1..(Len(after) - 1) : after[k] = name
             THEN image.filename \o <<"_">> \o Str(Suffix(after, name)) \o image.ext
             ELSE name
    ELSE Str(image.tim) \o image.ext

\* __md5check(path, md5)
md5checkAlways(data, md5) == TRUE

md5check(data, md5) == hexdigest(data) = md5

\* __get_images: the posts that have an attachment, in the order of the posts
RECURSIVE WithTim(_)
WithTim(ps) ==
    IF ps = <<>> THEN <<>>
    ELSE IF "tim" \in DOMAIN Head(ps) THEN <<Head(ps)>> \o WithTim(Tail(ps))
    ELSE WithTim(Tail(ps))

\* the index shown as "<i> of <total>": self.__image_count + 1
DisplayIndexNoAdd(count) == count

DisplayIndex(count) == count + 1

\* the pc the KeyboardInterrupt handler of __download_image continues at: it raises
\* KeyboardInterrupt again ("raise"); "return" would be a handler that swallows it
HandlerSwallows == "return"

HandlerEnd == "raise"

\* main's handler of ThreadDoesNotExist: exitcode = 1
NotFoundKeepsCode(code) == code

NotFoundCode(code) == 1

\* all files under a directory
DirPrefix(dest) == PathJoin(dest, <<>>)

FilesIn(fs, dest) ==
    {p \in DOMAIN fs : Len(p) > Len(DirPrefix(dest))
                        /\ SubSeq(p, 1, Len(DirPrefix(dest))) = DirPrefix(dest)}

----------------------------------------------------------------------------
(* Inputs *)

MaxURLs == 2

MaxPosts == 3

SThread == <<"t","h","r","e","a","d">>

UrlG == PatChan \o <<"g","/">> \o SThread \o <<"/","1">>

UrlPo == PatChannel \o <<"p","o","/">> \o SThread \o <<"/","2","3">>

UrlNoId == PatChan \o <<"g","/">> \o SThread \o <<"/">>

UrlBad == PatChan \o <<"g","/","1">>

UrlPool == {UrlG, UrlPo, UrlNoId, UrlBad}

Pic == <<"p","i","c">>

Pic1 == <<"p","i","c","_","1">>

Png == <<".","p","n","g">>

\* the k-th post of a thread: a text post, or a post with an attachment
PostAt(k, kind) ==
    IF kind = "text" THEN [no |-> k]
    ELSE [no |-> k, tim |-> 10 + k, filename |-> IF kind = "pic" THEN Pic ELSE Pic1,
          ext |-> Png, md5 |-> b64digest(Original(10 + k))]

PostSeqs(kinds, n) ==
    UNION {{[k \in 1..m |-> PostAt(k, f[k])] : f \in [1..m -> kinds]} : m \in 1..n}

\* the threads of the runs on several URLs: one or two posts, with or without
\* an attachment
MainSnapshots ==
    {<<PostAt(1, a)>> : a \in {"text", "pic"}}
        \cup {<<PostAt(1, a), PostAt(2, b)>> : a \in {"text", "pic"}, b \in {"text", "pic"}}

UrlSeqs(n) == UNION {[1..m -> UrlPool] : m \in 1..n}

NoCall == [active |-> FALSE, existed |-> FALSE, pre |-> <<>>, declared |-> <<"hex", 0>>,
           gets |-> 0, body |-> <<>>, after |-> <<>>]

InitHist ==
    [intr |-> "none", fatal |-> "none", emptyFetch |-> FALSE, gets |-> <<>>,
     shown |-> {}, loopDone |-> {}, refetchEmpty |-> {}, startEmpty |-> FALSE,
     allGood |-> TRUE, ended |-> FALSE, assigned |-> <<>>, doneCount |-> 0,
     call |-> NoCall, last |-> NoCall]

NoVerdict == [called |-> FALSE, valid |-> FALSE, board |-> <<>>, thread_id |-> <<>>]

InitIdle ==
    /\ dirs = {}
    /\ exitcode = 0
    /\ validURLs = <<>>
    /\ threads = <<>>
    /\ ui = 1
    /\ images = <<>>
    /\ image_total = 0
    /\ image_count = 0
    /\ filename = <<>>
    /\ file_path = <<>>
    /\ response = <<>>
    /\ size = 0
    /\ dl = 0
    /\ status = -1
    /\ verdict = NoVerdict
    /\ hist = InitHist

\* a run of main on up to MaxURLs URLs, in an empty working directory
Init ==
    /\ URLs \in UrlSeqs(MaxURLs)
    /\ keep_names \in BOOLEAN
    /\ posts \in MainSnapshots
    /\ files = <<>>
    /\ pc = "validate"
    /\ url = <<>>
    /\ InitIdle

\* a run of main on one URL, the thread of up to MaxPosts posts, the working
\* directory empty or holding one file, intact or not, under a name of the first post
InitThread ==
    /\ URLs \in {<<UrlG>>, <<UrlBad>>}
    /\ keep_names \in BOOLEAN
    /\ posts \in PostSeqs({"text", "pic", "pic_1"}, MaxPosts)
    /\ files \in {<<>>} \cup
         {[p \in {PathJoin(PathJoin(<<"g">>, <<"1">>), n)} |-> d] :
             n \in {Pic \o Png, Str(11) \o Png}, d \in {Original(11), Junk}}
    /\ pc = "validate"
    /\ url = <<>>
    /\ InitIdle

----------------------------------------------------------------------------
(* main, lines 160-170: one iteration of the loop that validates the URLs *)

world == <<URLs, keep_names, posts, url, verdict>>

download == <<images, image_total, image_count, filename, file_path, response, size, dl>>

Validate ==
    /\ pc = "validate"
    /\ ui <= Len(URLs)
    /\ IF check_url(URLs[ui])
       THEN validURLs' = Append(validURLs, URLs[ui]) /\ UNCHANGED exitcode
       ELSE exitcode' = 1 /\ UNCHANGED validURLs
    /\ ui' = ui + 1
    /\ UNCHANGED <<world, files, dirs, pc, threads, download, status, hist>>

\* the loop over args.URLs is exhausted: threads = []
ValidateDone ==
    /\ pc = "validate"
    /\ ui > Len(URLs)
    /\ pc' = "construct"
    /\ ui' = 1
    /\ UNCHANGED <<world, files, dirs, exitcode, validURLs, threads, download, status, hist>>

(* main, lines 173-178: Scraper(url, args.keep_names), that is __init__ with its   *)
(* __parse_url, os.makedirs and __get_thread, and main's handler of                *)
(* ThreadDoesNotExist                                                              *)
Construct ==
    /\ pc = "construct"
    /\ ui <= Len(validURLs)
    /\ LET parsed == parse_url(validURLs[ui]) IN
       IF "error" \in DOMAIN parsed
       THEN /\ pc' = "uncaught"
            /\ hist' = [hist EXCEPT !.fatal = "index"]
            /\ UNCHANGED <<dirs, exitcode, threads, ui>>
       ELSE LET dest == PathJoin(parsed.board, parsed.thread_id) IN
            /\ dirs' = dirs \cup {parsed.board, dest}
            /\ \E r \in ApiResponses :
                 CASE r.kind = "empty" ->
                        /\ exitcode' = NotFoundCode(exitcode)
                        /\ ui' = ui + 1
                        /\ hist' = [hist EXCEPT !.emptyFetch = TRUE]
                        /\ UNCHANGED <<pc, threads>>
                   [] r.kind = "garbage" ->
                        /\ pc' = "uncaught"
                        /\ hist' = [hist EXCEPT !.fatal = "json"]
                        /\ UNCHANGED <<exitcode, threads, ui>>
                   [] r.kind = "json" ->
                        /\ threads' = Append(threads,
                              [url |-> validURLs[ui], board |-> parsed.board,
                               thread_id |-> parsed.thread_id, destination |-> dest,
                               thread |-> r.posts, downloaded_files |-> <<>>])
                        /\ ui' = ui + 1
                        /\ UNCHANGED <<pc, exitcode, hist>>
    /\ UNCHANGED <<world, files, validURLs, download, status>>

\* the loop over validURLs is exhausted
ConstructDone ==
    /\ pc = "construct"
    /\ ui > Len(validURLs)
    /\ pc' = "scrape"
    /\ ui' = 1
    /\ UNCHANGED <<world, files, dirs, exitcode, validURLs, threads, download, status, hist>>

(* main, lines 180-181: thread.Scrape() up to the first __download_image:          *)
(* __get_thread again, then the head of __get_images                               *)
ScrapeFetch ==
    /\ pc = "scrape"
    /\ ui <= Len(threads)
    /\ \E r \in ApiResponses :
         CASE r.kind = "empty" ->
                /\ pc' = "uncaught"
                /\ hist' = [hist EXCEPT !.fatal = "notfound", !.emptyFetch = TRUE,
                                        !.refetchEmpty = @ \cup {ui}]
                /\ UNCHANGED <<threads, ui, images, image_total, image_count>>
           [] r.kind = "garbage" ->
                /\ pc' = "uncaught"
                /\ hist' = [hist EXCEPT !.fatal = "json"]
                /\ UNCHANGED <<threads, ui, images, image_total, image_count>>
           [] r.kind = "json" ->
                /\ threads' = [threads EXCEPT ![ui].thread = r.posts]
                /\ images' = WithTim(r.posts)
                /\ image_total' = Len(WithTim(r.posts))
                /\ IF WithTim(r.posts) = <<>>
                   THEN /\ ui' = ui + 1
                        /\ UNCHANGED <<pc, image_count>>
                   ELSE /\ image_count' = 0
                        /\ pc' = "download"
                        /\ UNCHANGED ui
                /\ hist' = [hist EXCEPT
                      !.startEmpty = FilesIn(files, threads[ui].destination) = {},
                      !.allGood = TRUE,
                      !.ended = WithTim(r.posts) = <<>>,
                      !.loopDone = IF WithTim(r.posts) = <<>> THEN @ \cup {ui} ELSE @,
                      !.assigned = <<>>,
                      !.doneCount = 0]
    /\ UNCHANGED <<world, files, dirs, exitcode, validURLs, filename, file_path,
                   response, size, dl, status>>

\* the loop over threads is exhausted: exit(exitcode)
Exit ==
    /\ pc = "scrape"
    /\ ui > Len(threads)
    /\ pc' = "exited"
    /\ status' = exitcode
    /\ UNCHANGED <<world, files, dirs, exitcode, validURLs, threads, ui, download, hist>>

----------------------------------------------------------------------------
(* Scraper.__get_images and __download_image *)

\* __download_image returns: the next iteration of enumerate(images) in
\* __get_images, or the next iteration of main's loop over threads
Return(h) ==
    IF image_count + 1 < image_total
    THEN /\ image_count' = image_count + 1
         /\ pc' = "download"
         /\ hist' = [h EXCEPT !.doneCount = @ + 1]
         /\ UNCHANGED ui
    ELSE /\ pc' = "scrape"
         /\ ui' = ui + 1
         /\ hist' = [h EXCEPT !.doneCount = @ + 1, !.ended = TRUE,
                              !.loopDone = @ \cup {ui}]
         /\ UNCHANGED image_count

(* __download_image, lines 55-88: the filename, the skip of a file that is there  *)
(* and intact, else the GET of the attachment and its Content-length               *)
Download ==
    /\ pc = "download"
    /\ LET image == images[image_count + 1]
           self == threads[ui]
           name == ResolveName(keep_names, self.downloaded_files, image)
           path == PathJoin(self.destination, name)
           md5 == b64decode_hex(image.md5)
           existed == FileExists(files, path)
           call == [active |-> TRUE, existed |-> existed,
                    pre |-> IF existed THEN files[path] ELSE <<>>,
                    declared |-> md5, gets |-> 0, body |-> <<>>, after |-> <<>>]
           h == [hist EXCEPT !.assigned = Append(@,
                    [filename |-> image.filename, ext |-> image.ext, name |-> name,
                     path |-> path, md5 |-> md5])]
       IN
       /\ threads' = [threads EXCEPT ![ui].downloaded_files =
                         ResolveLedger(keep_names, self.downloaded_files, image)]
       /\ filename' = name
       /\ file_path' = path
       /\ IF existed /\ md5check(files[path], md5)
          THEN /\ Return([h EXCEPT !.call = NoCall,
                                   !.last = [call EXCEPT !.after = files[path]]])
               /\ UNCHANGED <<response, size, dl>>
          ELSE \E r \in MediaResponses(image) :
                 LET g == [h EXCEPT
                        !.gets = Append(@, [t |-> ui, i |-> image_count,
                                            no |-> image.no, done |-> hist.doneCount]),
                        !.allGood = @ /\ hexdigest(r.body) = md5,
                        !.call = [call EXCEPT !.gets = 1, !.body = r.body]]
                 IN
                 IF r.header
                 THEN /\ response' = r.body
                      /\ size' = Len(r.body) * chunk_size
                      /\ dl' = 0
                      /\ pc' = "open"
                      /\ hist' = g
                      /\ UNCHANGED <<ui, image_count>>
                 ELSE /\ pc' = "uncaught"
                      /\ hist' = [g EXCEPT !.fatal = "header"]
                      /\ UNCHANGED <<ui, image_count, response, size, dl>>
    /\ UNCHANGED <<world, files, dirs, exitcode, validURLs, images, image_total, status>>

\* line 91: open(file_path, 'wb')
Open ==
    /\ pc = "open"
    /\ files' = OpenWb(files, file_path)
    /\ pc' = "stream"
    /\ UNCHANGED <<world, dirs, exitcode, validURLs, threads, ui, download, status, hist>>

\* lines 92-111: one chunk of response.iter_content written, the progress shown
WriteChunk ==
    /\ pc = "stream"
    /\ response # <<>>
    /\ files' = WriteTo(files, file_path, Head(response))
    /\ response' = Tail(response)
    /\ dl' = dl + chunk_size
    /\ hist' = [hist EXCEPT !.shown = @ \cup {<<DisplayIndex(image_count), image_total>>}]
    /\ UNCHANGED <<world, dirs, pc, exitcode, validURLs, threads, ui, images,
                   image_total, image_count, filename, file_path, size, status>>

\* lines 112-118: the body is exhausted, the file is closed, __download_image returns
Close ==
    /\ pc = "stream"
    /\ response = <<>>
    /\ Return([hist EXCEPT !.call = NoCall,
                           !.last = [hist.call EXCEPT !.after = files[file_path]]])
    /\ UNCHANGED <<world, files, dirs, exitcode, validURLs, threads, images,
                   image_total, filename, file_path, response, size, dl, status>>

----------------------------------------------------------------------------
(* KeyboardInterrupt, uncaught exceptions and the __main__ block *)

\* the interrupt arrives in main or in Scraper.__init__/Scrape outside
\* __download_image: no handler but the one of the __main__ block
InterruptMain ==
    /\ pc \in {"validate", "construct", "scrape"}
    /\ pc' = "interrupt"
    /\ hist' = [hist EXCEPT !.intr = IF pc = "validate" THEN "validate" ELSE "fetch"]
    /\ UNCHANGED <<world, files, dirs, exitcode, validURLs, threads, ui, download, status>>

\* the interrupt arrives in __download_image outside its try (lines 55-88)
InterruptDownload ==
    /\ pc \in {"download", "open"}
    /\ pc' = "interrupt"
    /\ hist' = [hist EXCEPT !.intr = "download"]
    /\ UNCHANGED <<world, files, dirs, exitcode, validURLs, threads, ui, download, status>>

(* the interrupt arrives inside the try while open() runs, before `file` is bound: *)
(* the handler removes the file (or fails to, the file not being there), and       *)
(* `finally: file.close()` raises UnboundLocalError, which replaces the interrupt  *)
InterruptOpen ==
    /\ pc = "open"
    /\ files' = Remove(files, file_path)
    /\ pc' = "uncaught"
    /\ hist' = [hist EXCEPT !.intr = "open", !.fatal = "unbound"]
    /\ UNCHANGED <<world, dirs, exitcode, validURLs, threads, ui, download, status>>

\* the interrupt arrives inside the try after the file was opened (lines 92-112)
InterruptStream ==
    /\ pc = "stream"
    /\ pc' = "except"
    /\ hist' = [hist EXCEPT !.intr = "stream"]
    /\ UNCHANGED <<world, files, dirs, exitcode, validURLs, threads, ui, download, status>>

\* the content of the file system after the handler's os.remove(file_path)
HandlerKeeps(fs, path) == fs

HandlerFiles(fs, path) == Remove(fs, path)

\* lines 114-118: os.remove(file_path); raise KeyboardInterrupt; file.close()
Handler ==
    /\ pc = "except"
    /\ files' = HandlerFiles(files, file_path)
    /\ IF HandlerEnd = "raise"
       THEN pc' = "interrupt" /\ UNCHANGED <<ui, image_count, hist>>
       ELSE Return(hist)
    /\ UNCHANGED <<world, dirs, exitcode, validURLs, threads, images, image_total,
                   filename, file_path, response, size, dl, status>>

\* lines 212-216: except KeyboardInterrupt: print(...); exit(130)
Abort ==
    /\ pc = "interrupt"
    /\ pc' = "exited"
    /\ status' = 130
    /\ UNCHANGED <<world, files, dirs, exitcode, validURLs, threads, ui, download, hist>>

\* any other exception leaves main and the __main__ block: the interpreter prints
\* the traceback and the process ends with status 1
Uncaught ==
    /\ pc = "uncaught"
    /\ pc' = "exited"
    /\ status' = 1
    /\ UNCHANGED <<world, files, dirs, exitcode, validURLs, threads, ui, download, hist>>

Next ==
    \/ Validate \/ ValidateDone \/ Construct \/ ConstructDone \/ ScrapeFetch \/ Exit
    \/ Download \/ Open \/ WriteChunk \/ Close
    \/ InterruptMain \/ InterruptDownload \/ InterruptOpen \/ InterruptStream
    \/ Handler \/ Abort \/ Uncaught

Spec == Init /\ [][Next]_vars

SpecThread == InitThread /\ [][Next]_vars

----------------------------------------------------------------------------
(* check_url and __parse_url on their own, over strings built from parts that  *)
(* are right or wrong each in its own way                                       *)

SHttps == <<"h","t","t","p","s",":","/","/">>

SBoards == <<"b","o","a","r","d","s">>

HostParts ==
    {PatChan, PatChannel,
     SHttps \o SBoards \o <<"x","4","c","h","a","n",".","o","r","g","/">>,
     SHttps \o SBoards \o <<".","4","c","h","a","n","/","o","r","g","/">>,
     SHttps \o SBoards \o <<NL,"4","c","h","a","n",".","o","r","g","/">>,
     <<"h","t","t","p",":","/","/">> \o SBoards \o <<".","4","c","h","a","n",".","o","r","g","/">>,
     <<" ">> \o PatChan,
     SHttps \o SBoards \o <<".","4","c","h","a","n",".","o","r","g">>}

BoardParts ==
    {<<>>, <<"g">>, <<"p","o">>, <<"a","b","c","d","e">>, <<"a","b","c","d","e","f">>,
     <<"G">>, <<"g","1">>, <<"g","/">>}

MiddleParts == {<<"/">> \o SThread \o <<"/">>, <<"/">> \o SThread, <<"/">> \o SThread \o <<"s","/">>,
                <<"/">>}

IdParts == {<<>>, <<"5">>, <<"5","1","9">>, <<"5","a">>, <<"x">>, <<"-","1">>}

TailParts == {<<>>, <<NL>>, <<NL, NL>>, <<"/">>, <<" ">>, <<"#","q">>}

UrlCandidates ==
    {h \o b \o m \o i \o t :
        h \in HostParts, b \in BoardParts, m \in MiddleParts, i \in IdParts, t \in TailParts}

InitUrl ==
    /\ url \in UrlCandidates
    /\ URLs = <<>>
    /\ keep_names = FALSE
    /\ posts = <<>>
    /\ files = <<>>
    /\ pc = "check_url"
    /\ InitIdle

\* main, lines 162-166, and Scraper.__init__, line 16, for one URL: the verdict
\* of check_url and, for a URL found valid, the board and thread id parsed from it
CheckUrl ==
    /\ pc = "check_url"
    /\ ~verdict.called
    /\ verdict' =
          IF check_url(url)
          THEN [called |-> TRUE, valid |-> TRUE, board |-> parse_url(url).board,
                thread_id |-> parse_url(url).thread_id]
          ELSE [NoVerdict EXCEPT !.called = TRUE]
    /\ UNCHANGED <<URLs, keep_names, posts, url, files, dirs, pc, exitcode, validURLs,
                   threads, ui, download, status, hist>>

SpecUrl == InitUrl /\ [][CheckUrl]_vars

----------------------------------------------------------------------------
(* Properties *)

AllValid == \A k \in 1..Len(URLs) : check_url(URLs[k])

\* C1: a run that is not interrupted ends with status 0 or 1, and with 0 only if
\* every supplied URL was valid and no fetch of a thread returned an empty body;
\* otherwise it ends with 1.
ExitStatusRule ==
    (pc = "exited" /\ hist.intr = "none") =>
        /\ status \in {0, 1}
        /\ status = 0 => (AllValid /\ ~hist.emptyFetch)

\* C1 witness: an uninterrupted run on valid URLs only, one of whose threads
\* was gone at the re-fetch done by Scrape, has ended with status 1.
ExitStatusWitness ==
    /\ pc = "exited" /\ hist.intr = "none"
    /\ AllValid /\ hist.refetchEmpty # {}
    /\ status = 1

\* C2 (as claimed): when a run ends that was not interrupted and met no error
\* other than invalid URLs and empty API bodies, every constructed thread whose
\* re-fetch was not empty has had its whole loop run.
BatchNotAborted ==
    (pc = "exited" /\ hist.intr = "none" /\ hist.fatal \in {"none", "notfound"}) =>
        \A t \in 1..Len(threads) : t \notin hist.refetchEmpty => t \in hist.loopDone

\* the grammar https://boards.<host-suffix>/<board:[a-z]{1,5}>/thread/<id:[0-9]+>
InGrammar(s) ==
    \E h \in {PatChan, PatChannel} : \E b \in 1..MaxBoardLen :
        /\ Len(s) >= Len(h) + b + Len(PatThread) + 1
        /\ SubSeq(s, 1, Len(h)) = h
        /\ \A j \in (Len(h) + 1)..(Len(h) + b) : s[j] \in Lower
        /\ SubSeq(s, Len(h) + b + 1, Len(h) + b + Len(PatThread)) = PatThread
        /\ \A j \in (Len(h) + b + Len(PatThread) + 1)..Len(s) : s[j] \in Digits

\* C3 (as claimed): check_url returns true exactly for the strings of the grammar,
\* and for every accepted string the split yields a non-empty board and a
\* non-empty thread id.
ValidatorMatchesGrammar ==
    verdict.called =>
        /\ verdict.valid = InGrammar(url)
        /\ verdict.valid => (verdict.board # <<>> /\ verdict.thread_id # <<>>)

\* the name the k-th attachment of a run is to get in original-name mode
ExpectedName(as, k) ==
    LET raw == as[k].filename \o as[k].ext
        c == Cardinality({j \in 1..k : as[j].filename \o as[j].ext = raw})
    IN  IF c = 1 THEN raw
        ELSE as[k].filename \o <<"_">> \o Str(c - 1) \o as[k].ext

\* C4: in original-name mode the first post with a given <originalName><ext> gets
\* exactly that name and the k-th such post gets <originalName>_<k-1><ext>.
OriginalNameSuffixes ==
    keep_names =>
        \A k \in 1..Len(hist.assigned) :
            hist.assigned[k].name = ExpectedName(hist.assigned, k)

\* C4 witness: three posts named pic.png got pic.png, pic_1.png, pic_2.png.
OriginalNameWitness ==
    /\ keep_names
    /\ Len(hist.assigned) = 3
    /\ \A k \in 1..3 : hist.assigned[k].filename = Pic /\ hist.assigned[k].ext = Png
    /\ hist.assigned[1].name = <<"p","i","c",".","p","n","g">>
    /\ hist.assigned[2].name = <<"p","i","c","_","1",".","p","n","g">>
    /\ hist.assigned[3].name = <<"p","i","c","_","2",".","p","n","g">>

\* C5: when __download_image returns, a file that was there with the declared MD5
\* has cost no GET and is unchanged; otherwise exactly one GET was issued and the
\* file holds the response body.
SkipOrDownloadOnce ==
    hist.last.active =>
        IF hist.last.existed /\ hexdigest(hist.last.pre) = hist.last.declared
        THEN hist.last.gets = 0 /\ hist.last.after = hist.last.pre
        ELSE hist.last.gets = 1 /\ hist.last.after = hist.last.body

\* C5 witness: a file that was there with another MD5 was fetched once and
\* overwritten with the response body.
SkipOrDownloadWitness ==
    /\ hist.last.active /\ hist.last.existed
    /\ hexdigest(hist.last.pre) # hist.last.declared
    /\ hist.last.gets = 1 /\ hist.last.after = hist.last.body
    /\ hist.last.after # hist.last.pre

\* C6: once an interrupt that arrived while the body was streamed to the opened
\* file has left __download_image, no file exists at the local path.
NoPartialFile ==
    (hist.intr = "stream" /\ pc \in {"interrupt", "exited"}) => ~FileExists(files, file_path)

\* C6 witness: the interrupt arrived mid-stream, after a chunk was written and
\* before the last one, and has left __download_image.
NoPartialFileWitness ==
    /\ hist.intr = "stream" /\ pc = "interrupt"
    /\ dl > 0 /\ response # <<>>
    /\ ~FileExists(files, file_path)

\* C7 (as claimed): a loop that ran to its end on a directory without files, the
\* media host serving the declared bytes, leaves exactly N files in the directory,
\* one per attachment post, each with the MD5 its post declares.
AllAttachmentsOnDisk ==
    (hist.ended /\ hist.startEmpty /\ hist.allGood) =>
        /\ Cardinality(FilesIn(files, threads[ui - 1].destination)) = image_total
        /\ \A k \in 1..Len(hist.assigned) :
              /\ FileExists(files, hist.assigned[k].path)
              /\ hexdigest(files[hist.assigned[k].path]) = hist.assigned[k].md5

NoWrite(fs, fs2) == \A p \in DOMAIN fs2 : p \in DOMAIN fs /\ fs2[p] = fs[p]

DistinctNames ==
    keep_names =>
        \A j, k \in 1..Len(hist.assigned) :
            j # k => hist.assigned[j].name # hist.assigned[k].name

RECURSIVE IsSubseq(_, _)
IsSubseq(a, b) ==
    IF a = <<>> THEN TRUE
    ELSE IF b = <<>> THEN FALSE
    ELSE IF Head(a) = Head(b) THEN IsSubseq(Tail(a), Tail(b))
    ELSE IsSubseq(a, Tail(b))

\* C10: the attachment GETs are issued after every URL was validated and every
\* valid thread constructed, thread by thread in the order of the supplied URLs,
\* within a thread in the order of the attachment posts of the re-fetched snapshot,
\* each after all earlier attachments of the thread were skipped or fully written;
\* and every index shown satisfies 1 <= i <= total.
SequentialInOrder ==
    /\ hist.gets # <<>> => pc \notin {"validate", "construct"}
    /\ IsSubseq([t \in 1..Len(threads) |-> threads[t].url], URLs)
    /\ \A k \in 1..Len(hist.gets) :
          LET g == hist.gets[k] IN
          /\ g.t \in 1..Len(threads)
          /\ g.i + 1 <= Len(WithTim(threads[g.t].thread))
          /\ WithTim(threads[g.t].thread)[g.i + 1].no = g.no
          /\ g.done = g.i
    /\ \A k \in 1..(Len(hist.gets) - 1) :
          LET g == hist.gets[k]
              n == hist.gets[k + 1]
          IN  g.t < n.t \/ (g.t = n.t /\ g.i < n.i /\ g.no < n.no)
    /\ \A p \in hist.shown : 1 <= p[1] /\ p[1] <= p[2]

\* C10 witness: attachments of two threads were fetched, the first thread's
\* before the second's, and progress was shown.
SequentialWitness ==
    /\ Len(hist.gets) >= 3
    /\ hist.gets[1].t = 1 /\ hist.gets[Len(hist.gets)].t = 2
    /\ hist.shown # {}

====
